---- MODULE Spec2Model ----
(***************************************************************************)
(* Model of pkg/tcp/wrr_load_balancer.go: the weighted round-robin pool    *)
(* (AddWeightServer, next, ServeTCP) and the status aggregator (SetStatus). *)
(* Indices are 0-based as in the Go code; servers[i+1] is b.servers[i].     *)
(***************************************************************************)
EXTENDS Integers, Sequences, FiniteSets, TLC

\* ---------------------------------------------------------------- bounds
MaxPool == 3        \* most servers appended to a pool
MaxNegWeight == 2   \* the least weight handed to AddWeightServer is -MaxNegWeight
MaxWeight == 5      \* greatest weight handed to AddWeightServer
MaxCalls == 14      \* most next() calls recorded between two appends
NumProcs == 2       \* goroutines calling ServeTCP
MaxConns == 3       \* connections served in one run
MaxServePool == 2   \* most servers appended while connections are served
MaxServeNeg == 1    \* the least weight appended while connections are served is -MaxServeNeg
MaxServeWeight == 2 \* greatest weight appended while connections are served
NumReporters == 2   \* goroutines calling SetStatus
NumNames == 2       \* child names reported
MaxReports == 3     \* SetStatus calls in one run
MaxUpdaters == 2    \* listeners registered
MaxFactor == 2      \* greatest common factor the weights of the scaled pool are multiplied by
MaxScalePool == 3   \* most servers appended to the pool and its scaled twin
MaxScaleNeg == 1    \* the least weight appended to the pool with a twin is -MaxScaleNeg
MaxScaleWeight == 3 \* greatest weight appended to the pool with a twin
MaxScaleCalls == 8  \* most next() calls recorded on the pool with a twin

Weights == (-MaxNegWeight)..MaxWeight
ServeWeights == (-MaxServeNeg)..MaxServeWeight
ScaleWeights == (-MaxScaleNeg)..MaxScaleWeight

VARIABLES
    servers,        \* b.servers: sequence of weights (the handler is the position)
    index,          \* b.index
    currentWeight,  \* b.currentWeight
    ret,            \* what the last sequential next() call returned, and on which pool
    hist,           \* positions returned by next() since the last append
    freshStart,     \* the rotation state was (index -1, currentWeight 0) at the last append
    lock,           \* b.lock: Free or the goroutine holding it
    pc,             \* position of each ServeTCP goroutine
    lmax,           \* next()'s local max, per goroutine
    lgcd,           \* next()'s local gcd, per goroutine
    liters,         \* failed loop iterations of the running next(), per goroutine
    res,            \* (next, err) as returned to ServeTCP, per goroutine
    tries,          \* next() calls made for the goroutine's current connection
    closed,         \* conn.Close() calls on the goroutine's current connection
    fwd,            \* positions of the handlers the current connection was passed to
    nConns,         \* connections accepted so far
    pcA,            \* position of the AddWeightServer goroutine
    argW,           \* weight the AddWeightServer goroutine is appending
    refIndex,       \* index of the sequential reference run
    refWeight,      \* currentWeight of the sequential reference run
    expect,         \* what the reference run returned for the goroutine's call
    statusAlloc,    \* b.status is not nil
    status,         \* b.status: child name -> cell (0: no entry)
    cells,          \* the atomic.Bool values allocated by SetStatus
    mapWriter,      \* the goroutines inside an assignment to b.status
    updaters,       \* b.updaters: the listeners in registration order
    rep,            \* each SetStatus goroutine: position, arguments, locals
    crashed,        \* the process was ended by a panic or a fatal error
    delivered,      \* per listener, the <<up, name>> it was called with, in order
    raced,          \* two SetStatus calls overlapped, one of them assigning to b.status
    flips,          \* successful compare-and-swaps per child name
    nReports,       \* SetStatus calls so far
    factor,         \* the factor of the scaled twin pool
    scaled,         \* the twin's b.servers: the weights of servers times factor
    sIndex,         \* the twin's b.index
    sWeight,        \* the twin's b.currentWeight
    sRet            \* what the twin's last next() call returned

poolVars == <<servers, index, currentWeight>>
seqVars == <<ret, hist, freshStart>>
serveVars == <<lock, pc, lmax, lgcd, liters, res, tries, closed, fwd, nConns,
               pcA, argW, refIndex, refWeight, expect>>
statusVars == <<statusAlloc, status, cells, mapWriter, updaters, rep, crashed,
                delivered, raced, flips, nReports>>
scaleVars == <<factor, scaled, sIndex, sWeight, sRet>>
vars == <<poolVars, seqVars, serveVars, statusVars, scaleVars>>

Procs == 1..NumProcs
Free == 0
Adder == NumProcs + 1
Reporters == 1..NumReporters
Names == 1..NumNames
Listeners == 1..MaxUpdaters

\* ------------------------------------------------------- pure functions
Abs(x) == IF x < 0 THEN -x ELSE x

\* Go's % truncates toward zero: the result has the sign of the dividend.
GoRem(a, b) == IF a >= 0 THEN a % Abs(b) ELSE -((-a) % Abs(b))

RECURSIVE gcd(_, _)
gcd(a, b) == IF b = 0 THEN a ELSE gcd(b, GoRem(a, b))

RECURSIVE maxWeightFrom(_, _, _)
maxWeightFrom(s, i, max) ==
    IF i > Len(s) THEN max
    ELSE maxWeightFrom(s, i + 1, IF s[i] > max THEN s[i] ELSE max)

maxWeight(s) == maxWeightFrom(s, 1, -1)

RECURSIVE weightGcdFrom(_, _, _)
weightGcdFrom(s, i, divisor) ==
    IF i > Len(s) THEN divisor
    ELSE weightGcdFrom(s, i + 1,
                       IF divisor = -1 THEN s[i] ELSE gcd(divisor, s[i]))

\* weightGcd without the division: every pool is stepped by 1.
weightGcdOne(s) == 1

\* weightGcd returning the greatest weight instead of the common divisor.
weightGcdMax(s) == maxWeight(s)

weightGcd(s) == weightGcdFrom(s, 1, -1)

\* One iteration of the for loop of next(): advance the index, lower the
\* threshold on wrap-around, test the server at the index.
LoopIndex(s, idx) == (idx + 1) % Len(s)

\* LoopWeight with the reset test written < instead of <=.
LoopWeightStrict(s, idx, cw, max, g) ==
    IF LoopIndex(s, idx) = 0
    THEN (IF cw - g < 0 THEN max ELSE cw - g)
    ELSE cw

LoopWeight(s, idx, cw, max, g) ==
    IF LoopIndex(s, idx) = 0
    THEN (IF cw - g <= 0 THEN max ELSE cw - g)
    ELSE cw

LoopSelects(s, idx, cw, max, g) ==
    s[LoopIndex(s, idx) + 1] >= LoopWeight(s, idx, cw, max, g)

\* The loop has no exit but the return.  Once 2*len iterations have failed a
\* whole pass over the pool has failed; that only happens with a negative gcd,
\* where currentWeight grows at every wrap-around, so the call does not return
\* (short of wrapping the machine integer).  That outcome is "spin".
SpinAfter(s) == 2 * Len(s)

RECURSIVE loop(_, _, _, _, _, _)
loop(s, idx, cw, max, g, n) ==
    IF n >= SpinAfter(s)
    THEN [kind |-> "spin", index |-> idx, currentWeight |-> cw, sel |-> -1, iters |-> n]
    ELSE IF LoopSelects(s, idx, cw, max, g)
         THEN [kind |-> "ok", index |-> LoopIndex(s, idx),
               currentWeight |-> LoopWeight(s, idx, cw, max, g),
               sel |-> LoopIndex(s, idx), iters |-> n + 1]
         ELSE loop(s, LoopIndex(s, idx), LoopWeight(s, idx, cw, max, g), max, g, n + 1)

Failed(kind, idx, cw) ==
    [kind |-> kind, index |-> idx, currentWeight |-> cw, sel |-> -1, iters |-> 0]

\* next() without the len(b.servers) == 0 check: the modulo by the length panics.
nextNoEmptyCheck(s, idx, cw) ==
    IF Len(s) = 0
    THEN Failed("panic", idx, cw)
    ELSE IF maxWeight(s) = 0
         THEN Failed("zero", idx, cw)
         ELSE loop(s, idx, cw, maxWeight(s), weightGcd(s), 0)

\* next() with the max check written < 0 instead of == 0.
nextNegativeCheck(s, idx, cw) ==
    IF Len(s) = 0
    THEN Failed("empty", idx, cw)
    ELSE IF maxWeight(s) < 0
         THEN Failed("zero", idx, cw)
         ELSE loop(s, idx, cw, maxWeight(s), weightGcd(s), 0)

\* next(): the two precondition checks, then the loop.
next(s, idx, cw) ==
    IF Len(s) = 0
    THEN Failed("empty", idx, cw)
    ELSE IF maxWeight(s) = 0
         THEN Failed("zero", idx, cw)
         ELSE loop(s, idx, cw, maxWeight(s), weightGcd(s), 0)

\* ------------------------------------------------ sequential pool: Spec
NoRet == [kind |-> "none", sel |-> -1, iters |-> 0, pool |-> <<>>]
NoRes == [kind |-> "none", sel |-> -1]

InitPool ==
    /\ servers = <<>>
    /\ index = -1
    /\ currentWeight = 0

InitSeq ==
    /\ ret = NoRet
    /\ hist = <<>>
    /\ freshStart = TRUE

InitServe ==
    /\ lock = Free
    /\ pc = [p \in Procs |-> "idle"]
    /\ lmax = [p \in Procs |-> 0]
    /\ lgcd = [p \in Procs |-> 0]
    /\ liters = [p \in Procs |-> 0]
    /\ res = [p \in Procs |-> NoRes]
    /\ tries = [p \in Procs |-> 0]
    /\ closed = [p \in Procs |-> 0]
    /\ fwd = [p \in Procs |-> <<>>]
    /\ nConns = 0
    /\ pcA = "idle"
    /\ argW = 0
    /\ refIndex = -1
    /\ refWeight = 0
    /\ expect = [p \in Procs |-> NoRes]

IdleRep == [pc |-> "idle", name |-> 1, up |-> FALSE, cell |-> 0, k |-> 0,
            miss |-> FALSE, cased |-> FALSE, old |-> FALSE, new |-> FALSE, sent |-> 0,
            log |-> <<>>, seen |-> FALSE, seenAt |-> 0, epoch |-> 0]

InitStatusRest ==
    /\ status = [n \in Names |-> 0]
    /\ cells = <<>>
    /\ mapWriter = {}
    /\ updaters = <<>>
    /\ rep = [r \in Reporters |-> IdleRep]
    /\ crashed = FALSE
    /\ delivered = <<>>
    /\ raced = FALSE
    /\ flips = [n \in Names |-> 0]
    /\ nReports = 0

\* NewWRRLoadBalancer sets index only: status is the nil map, updaters is empty.
InitStatusCtor == statusAlloc = FALSE /\ InitStatusRest

\* A balancer whose status map has been allocated, empty.
InitStatusMade == statusAlloc = TRUE /\ InitStatusRest

\* No twin pool: the factor is 1 and the twin stays empty.
InitScaleIdle ==
    /\ factor = 1
    /\ scaled = <<>>
    /\ sIndex = -1
    /\ sWeight = 0
    /\ sRet = NoRet

Init == InitPool /\ InitSeq /\ InitServe /\ InitStatusCtor /\ InitScaleIdle

Hung == ret.kind = "spin"

AddWeightServer(w) ==
    /\ ~Hung
    /\ Len(servers) < MaxPool
    /\ servers' = Append(servers, w)
    /\ hist' = <<>>
    /\ freshStart' = (index = -1 /\ currentWeight = 0)
    /\ UNCHANGED <<index, currentWeight, ret, serveVars, statusVars, scaleVars>>

AddServer == AddWeightServer(1)

\* next() declared on a value receiver: its writes to index and currentWeight
\* are made to a copy and lost.
CallNextValueReceiver ==
    /\ ~Hung
    /\ Len(hist) < MaxCalls
    /\ LET r == next(servers, index, currentWeight) IN
        /\ ret' = [kind |-> r.kind, sel |-> r.sel, iters |-> r.iters, pool |-> servers]
        /\ hist' = IF r.kind = "ok" THEN Append(hist, r.sel) ELSE hist
    /\ UNCHANGED <<poolVars, freshStart, serveVars, statusVars, scaleVars>>

CallNext ==
    /\ ~Hung
    /\ Len(hist) < MaxCalls
    /\ LET r == next(servers, index, currentWeight) IN
        /\ index' = r.index
        /\ currentWeight' = r.currentWeight
        /\ ret' = [kind |-> r.kind, sel |-> r.sel, iters |-> r.iters, pool |-> servers]
        /\ hist' = IF r.kind = "ok" THEN Append(hist, r.sel) ELSE hist
    /\ UNCHANGED <<servers, freshStart, serveVars, statusVars, scaleVars>>

Next ==
    \/ \E w \in Weights : AddWeightServer(w)
    \/ AddServer
    \/ CallNext

Spec == Init /\ [][Next]_vars

\* ------------------------------------------ concurrent dispatch: SpecServe
\* ServeTCP, line 39: b.lock.Lock() for a newly accepted connection.  The
\* reference run makes its next() call at the same moment.
ServeEnter(p) ==
    /\ pc[p] \in {"idle", "done"}
    /\ nConns < MaxConns
    /\ lock' = p
    /\ pc' = [pc EXCEPT ![p] = "check"]
    /\ nConns' = nConns + 1
    /\ res' = [res EXCEPT ![p] = NoRes]
    /\ tries' = [tries EXCEPT ![p] = 0]
    /\ closed' = [closed EXCEPT ![p] = 0]
    /\ fwd' = [fwd EXCEPT ![p] = <<>>]
    /\ LET r == next(servers, refIndex, refWeight) IN
        /\ expect' = [expect EXCEPT ![p] = [kind |-> r.kind, sel |-> r.sel]]
        /\ refIndex' = r.index
        /\ refWeight' = r.currentWeight
    /\ UNCHANGED <<poolVars, seqVars, statusVars, scaleVars, lmax, lgcd, liters, pcA, argW>>

\* ServeTCP without the mutex.
ServeLockNoMutex(p) == ServeEnter(p)

ServeLock(p) ==
    /\ lock = Free
    /\ ServeEnter(p)

\* next(), lines 100-115: the two checks, then max and gcd into locals.
NextCheck(p) ==
    /\ pc[p] = "check"
    /\ tries' = [tries EXCEPT ![p] = tries[p] + 1]
    /\ IF Len(servers) = 0
       THEN /\ res' = [res EXCEPT ![p] = [kind |-> "empty", sel |-> -1]]
            /\ pc' = [pc EXCEPT ![p] = "unlock"]
            /\ UNCHANGED <<lmax, lgcd, liters>>
       ELSE IF maxWeight(servers) = 0
            THEN /\ res' = [res EXCEPT ![p] = [kind |-> "zero", sel |-> -1]]
                 /\ pc' = [pc EXCEPT ![p] = "unlock"]
                 /\ UNCHANGED <<lmax, lgcd, liters>>
            ELSE /\ lmax' = [lmax EXCEPT ![p] = maxWeight(servers)]
                 /\ lgcd' = [lgcd EXCEPT ![p] = weightGcd(servers)]
                 /\ liters' = [liters EXCEPT ![p] = 0]
                 /\ pc' = [pc EXCEPT ![p] = "advance"]
                 /\ UNCHANGED res
    /\ UNCHANGED <<poolVars, seqVars, statusVars, scaleVars, lock, closed, fwd, nConns, pcA, argW,
                   refIndex, refWeight, expect>>

\* next(), lines 118-124: advance b.index and, on wrap-around, b.currentWeight.
LoopAdvance(p) ==
    /\ pc[p] = "advance"
    /\ index' = LoopIndex(servers, index)
    /\ currentWeight' = LoopWeight(servers, index, currentWeight, lmax[p], lgcd[p])
    /\ pc' = [pc EXCEPT ![p] = "test"]
    /\ UNCHANGED <<servers, seqVars, statusVars, scaleVars, lock, lmax, lgcd, liters, res, tries, closed,
                   fwd, nConns, pcA, argW, refIndex, refWeight, expect>>

\* next(), lines 125-128: read b.servers[b.index] and return it or loop again.
LoopTest(p) ==
    /\ pc[p] = "test"
    /\ IF index \notin 0..(Len(servers) - 1)
       THEN /\ pc' = [pc EXCEPT ![p] = "panic"]
            /\ UNCHANGED <<res, liters>>
       ELSE IF servers[index + 1] >= currentWeight
            THEN /\ res' = [res EXCEPT ![p] = [kind |-> "ok", sel |-> index]]
                 /\ pc' = [pc EXCEPT ![p] = "unlock"]
                 /\ UNCHANGED liters
            ELSE /\ liters' = [liters EXCEPT ![p] = liters[p] + 1]
                 /\ IF liters[p] + 1 >= SpinAfter(servers)
                    THEN /\ pc' = [pc EXCEPT ![p] = "spin"]
                         /\ res' = [res EXCEPT ![p] = [kind |-> "spin", sel |-> -1]]
                    ELSE /\ pc' = [pc EXCEPT ![p] = "advance"]
                         /\ UNCHANGED res
    /\ UNCHANGED <<poolVars, seqVars, statusVars, scaleVars, lock, lmax, lgcd, tries, closed, fwd, nConns,
                   pcA, argW, refIndex, refWeight, expect>>

ServeRest == <<poolVars, seqVars, statusVars, scaleVars, lmax, lgcd, liters, res, tries, nConns, pcA, argW,
               refIndex, refWeight, expect>>

\* ServeTCP with the unlock deferred to the return of the function.
ServeUnlockDeferred(p) ==
    /\ pc[p] = "unlock"
    /\ pc' = [pc EXCEPT ![p] = IF res[p].kind = "ok" THEN "forward" ELSE "close"]
    /\ UNCHANGED <<ServeRest, lock, closed, fwd>>

\* ServeTCP, lines 41-43: b.lock.Unlock(), then the branch on err.
ServeUnlock(p) ==
    /\ pc[p] = "unlock"
    /\ lock' = Free
    /\ pc' = [pc EXCEPT ![p] = IF res[p].kind = "ok" THEN "forward" ELSE "close"]
    /\ UNCHANGED <<ServeRest, closed, fwd>>

\* The error branch without its return: it falls through to next.ServeTCP.
ConnCloseNoReturn(p) ==
    /\ pc[p] = "close"
    /\ closed' = [closed EXCEPT ![p] = closed[p] + 1]
    /\ pc' = [pc EXCEPT ![p] = "forward"]
    /\ UNCHANGED <<ServeRest, lock, fwd>>

\* ServeTCP, lines 44-46: log, conn.Close(), return.
ConnClose(p) ==
    /\ pc[p] = "close"
    /\ closed' = [closed EXCEPT ![p] = closed[p] + 1]
    /\ pc' = [pc EXCEPT ![p] = "done"]
    /\ UNCHANGED <<ServeRest, lock, fwd>>

\* ServeTCP, line 49: next.ServeTCP(conn) is entered.
HandlerServeTCP(p) ==
    /\ pc[p] = "forward"
    /\ fwd' = [fwd EXCEPT ![p] = Append(fwd[p], res[p].sel)]
    /\ pc' = [pc EXCEPT ![p] = "forwarding"]
    /\ UNCHANGED <<ServeRest, lock, closed>>

\* The handler returns, and ServeTCP with it.  Forwarding may take any time.
HandlerReturn(p) ==
    /\ pc[p] = "forwarding"
    /\ pc' = [pc EXCEPT ![p] = "done"]
    /\ UNCHANGED <<ServeRest, lock, closed, fwd>>

\* AddWeightServer, lines 60-66: b.lock.Lock(), the weight is read.
AddWeightServerLock(w) ==
    /\ pcA = "idle"
    /\ Len(servers) < MaxServePool
    /\ lock = Free
    /\ lock' = Adder
    /\ pcA' = "locked"
    /\ argW' = w
    /\ UNCHANGED <<poolVars, seqVars, statusVars, scaleVars, pc, lmax, lgcd, liters, res, tries, closed, fwd,
                   nConns, refIndex, refWeight, expect>>

\* AddWeightServer, line 67 and the deferred unlock.
AddWeightServerAppend ==
    /\ pcA = "locked"
    /\ servers' = Append(servers, argW)
    /\ lock' = Free
    /\ pcA' = "idle"
    /\ UNCHANGED <<index, currentWeight, seqVars, statusVars, scaleVars, pc, lmax, lgcd, liters, res, tries,
                   closed, fwd, nConns, argW, refIndex, refWeight, expect>>

NextServe ==
    \/ \E p \in Procs :
        \/ ServeLock(p)
        \/ NextCheck(p)
        \/ LoopAdvance(p)
        \/ LoopTest(p)
        \/ ServeUnlock(p)
        \/ ConnClose(p)
        \/ HandlerServeTCP(p)
        \/ HandlerReturn(p)
    \/ \E w \in ServeWeights : AddWeightServerLock(w)
    \/ AddWeightServerAppend

SpecServe == Init /\ [][NextServe]_vars

\* ---------------------------------------------- status aggregator: SpecStatus
InitStatus ==
    /\ InitPool /\ InitSeq /\ InitServe /\ InitScaleIdle
    /\ (InitStatusCtor \/ InitStatusMade)

PoolRest == <<poolVars, seqVars, serveVars, scaleVars>>

\* Registration of a listener: appended to b.updaters, before any status report.
\* A listener is named by its place in the order of registration.
RegisterStatusUpdater ==
    /\ ~crashed
    /\ nReports = 0
    /\ Len(updaters) < MaxUpdaters
    /\ updaters' = Append(updaters, Len(updaters) + 1)
    /\ delivered' = [l \in 1..(Len(updaters) + 1) |-> <<>>]
    /\ UNCHANGED <<PoolRest, statusAlloc, status, cells, mapWriter, rep, crashed,
                   flips, nReports, raced>>

\* Child name n is in b.status or is the argument of a call under way.
Reported(n) == status[n] # 0 \/ \E q \in Reporters : rep[q].pc # "idle" /\ rep[q].name = n

\* SetStatus, lines 133-142: the call and the lookup in b.status.  A lookup
\* that overlaps an assignment to the map by another goroutine is a data race:
\* the runtime may end the process, or the lookup goes through.  The calling
\* goroutines are interchangeable, and so are the child names: a new call is
\* run by the first idle goroutine, and a name not reported before is the
\* first such name.
SetStatusLookup(r, n, up) ==
    /\ ~crashed
    /\ rep[r].pc = "idle"
    /\ \A q \in Reporters : q < r => rep[q].pc # "idle"
    /\ \A m \in Names : m < n => Reported(m)
    /\ nReports < MaxReports
    /\ nReports' = nReports + 1
    /\ raced' = (raced \/ \E q \in Reporters \ {r} : rep[q].pc \in {"store", "assign"})
    /\ \/ /\ rep' = [rep EXCEPT ![r] =
                 [IdleRep EXCEPT !.name = n, !.up = up, !.cell = status[n],
                                 !.miss = (status[n] = 0),
                                 !.seen = IF status[n] = 0 THEN FALSE ELSE cells[status[n]],
                                 !.seenAt = flips[n],
                                 !.pc = IF status[n] = 0 THEN "store" ELSE "cas"]]
          /\ UNCHANGED crashed
       \/ /\ mapWriter # {}
          /\ rep' = [rep EXCEPT ![r] = [IdleRep EXCEPT !.name = n, !.up = up, !.pc = "fatal"]]
          /\ crashed' = TRUE
    /\ UNCHANGED <<PoolRest, statusAlloc, status, cells, mapWriter, updaters,
                   delivered, flips>>

\* SetStatus, lines 143-145: a new atomic.Bool holding up, and the start of the
\* assignment b.status[childName] = s.  On the nil map the assignment panics;
\* overlapping another goroutine's assignment it is a data race.
StatusStoreBegin(r) ==
    /\ ~crashed
    /\ rep[r].pc = "store"
    /\ cells' = Append(cells, rep[r].up)
    /\ raced' = (raced \/ (statusAlloc /\ \E q \in Reporters \ {r} : rep[q].pc \notin {"idle", "done"}))
    /\ \/ /\ ~statusAlloc
          /\ rep' = [rep EXCEPT ![r].pc = "panic"]
          /\ crashed' = TRUE
          /\ UNCHANGED mapWriter
       \/ /\ statusAlloc
          /\ rep' = [rep EXCEPT ![r].pc = "assign", ![r].cell = Len(cells) + 1]
          /\ mapWriter' = mapWriter \cup {r}
          /\ UNCHANGED crashed
       \/ /\ statusAlloc
          /\ mapWriter # {}
          /\ rep' = [rep EXCEPT ![r].pc = "fatal"]
          /\ crashed' = TRUE
          /\ UNCHANGED mapWriter
    /\ UNCHANGED <<PoolRest, statusAlloc, status, updaters, delivered, flips, nReports>>

\* SetStatus, lines 145-146: the assignment completes and the call returns.
StatusStoreEnd(r) ==
    /\ ~crashed
    /\ rep[r].pc = "assign"
    /\ status' = [status EXCEPT ![rep[r].name] = rep[r].cell]
    /\ mapWriter' = mapWriter \ {r}
    /\ rep' = [rep EXCEPT ![r].pc = "done"]
    /\ UNCHANGED <<PoolRest, statusAlloc, cells, updaters, crashed, delivered, flips,
                   nReports, raced>>

\* What the compare-and-swap of goroutine r does to the cells, the flip counts
\* and r's locals; next is where r goes when the swap succeeds or fails.
CasEffect(r, onSwap, onFail) ==
    LET c == rep[r].cell
        swap == cells[c] = ~rep[r].up
    IN /\ cells' = IF swap THEN [cells EXCEPT ![c] = rep[r].up] ELSE cells
       /\ flips' = IF swap THEN [flips EXCEPT ![rep[r].name] = @ + 1] ELSE flips
       /\ rep' = [rep EXCEPT ![r].cased = TRUE, ![r].old = cells[c],
                             ![r].new = cells'[c], ![r].k = 1,
                             ![r].epoch = flips'[rep[r].name],
                             ![r].pc = IF swap THEN onSwap ELSE onFail]

\* SetStatus with the result of the compare-and-swap ignored.
StatusCasAlways(r) ==
    /\ ~crashed
    /\ rep[r].pc = "cas"
    /\ CasEffect(r, "propagate", "propagate")
    /\ UNCHANGED <<PoolRest, statusAlloc, status, mapWriter, updaters, crashed,
                   delivered, nReports, raced>>

\* SetStatus, lines 149-152: CompareAndSwap(!up, up) on the cell found by the
\* lookup; when it fails the call returns.
StatusCas(r) ==
    /\ ~crashed
    /\ rep[r].pc = "cas"
    /\ CasEffect(r, "propagate", "done")
    /\ UNCHANGED <<PoolRest, statusAlloc, status, mapWriter, updaters, crashed,
                   delivered, nReports, raced>>

\* What calling listener l with r's value does to the logs.
Invoke(r, l) ==
    /\ delivered' = [delivered EXCEPT ![l] = Append(@, <<rep[r].up, rep[r].name>>)]
    /\ rep' = [rep EXCEPT ![r].k = @ + 1, ![r].sent = @ + 1,
                          ![r].log = Append(@, <<l, rep[r].up>>)]

\* The loop over b.updaters run from the last listener to the first.
PropagateReversed(r) ==
    /\ ~crashed
    /\ rep[r].pc = "propagate"
    /\ IF rep[r].k <= Len(updaters)
       THEN Invoke(r, updaters[Len(updaters) + 1 - rep[r].k])
       ELSE /\ rep' = [rep EXCEPT ![r].pc = "done"]
            /\ UNCHANGED delivered
    /\ UNCHANGED <<PoolRest, statusAlloc, status, cells, mapWriter, updaters, crashed,
                   flips, nReports, raced>>

\* SetStatus, lines 155-157: the next listener of b.updaters is called with up;
\* past the last one the call returns.
Propagate(r) ==
    /\ ~crashed
    /\ rep[r].pc = "propagate"
    /\ IF rep[r].k <= Len(updaters)
       THEN Invoke(r, updaters[rep[r].k])
       ELSE /\ rep' = [rep EXCEPT ![r].pc = "done"]
            /\ UNCHANGED delivered
    /\ UNCHANGED <<PoolRest, statusAlloc, status, cells, mapWriter, updaters, crashed,
                   flips, nReports, raced>>

\* SetStatus has returned; the goroutine is ready for its next report.
SetStatusReturn(r) ==
    /\ ~crashed
    /\ rep[r].pc = "done"
    /\ rep' = [rep EXCEPT ![r] = IdleRep]
    /\ UNCHANGED <<PoolRest, statusAlloc, status, cells, mapWriter, updaters, crashed,
                   delivered, flips, nReports, raced>>

NextStatus ==
    \/ RegisterStatusUpdater
    \/ \E r \in Reporters, n \in Names, up \in BOOLEAN : SetStatusLookup(r, n, up)
    \/ \E r \in Reporters :
        \/ StatusStoreBegin(r)
        \/ StatusStoreEnd(r)
        \/ StatusCas(r)
        \/ Propagate(r)
        \/ SetStatusReturn(r)

SpecStatus == InitStatus /\ [][NextStatus]_vars

\* ------------------------------------------------- scaled pools: SpecScale
\* Two balancers made by NewWRRLoadBalancer; whatever weight is appended to the
\* first, factor times that weight is appended to the second.
InitScale ==
    /\ InitPool /\ InitSeq /\ InitServe /\ InitStatusCtor
    /\ factor \in 1..MaxFactor
    /\ scaled = <<>>
    /\ sIndex = -1
    /\ sWeight = 0
    /\ sRet = NoRet

ScaleHung == Hung \/ sRet.kind = "spin"

\* AddWeightServer(h, w) on the pool and AddWeightServer(h, factor * w) on its twin.
ScaleAddWeightServer(w) ==
    /\ ~ScaleHung
    /\ Len(servers) < MaxScalePool
    /\ servers' = Append(servers, w)
    /\ scaled' = Append(scaled, factor * w)
    /\ hist' = <<>>
    /\ freshStart' = (index = -1 /\ currentWeight = 0)
    /\ UNCHANGED <<index, currentWeight, ret, serveVars, statusVars, factor, sIndex,
                   sWeight, sRet>>

\* next() on the pool and next() on its twin.
ScaleCallNext ==
    /\ ~ScaleHung
    /\ Len(hist) < MaxScaleCalls
    /\ LET r == next(servers, index, currentWeight)
           t == next(scaled, sIndex, sWeight)
       IN /\ index' = r.index
          /\ currentWeight' = r.currentWeight
          /\ ret' = [kind |-> r.kind, sel |-> r.sel, iters |-> r.iters, pool |-> servers]
          /\ hist' = IF r.kind = "ok" THEN Append(hist, r.sel) ELSE hist
          /\ sIndex' = t.index
          /\ sWeight' = t.currentWeight
          /\ sRet' = [kind |-> t.kind, sel |-> t.sel, iters |-> t.iters, pool |-> scaled]
    /\ UNCHANGED <<servers, freshStart, serveVars, statusVars, factor, scaled>>

NextScale ==
    \/ \E w \in ScaleWeights : ScaleAddWeightServer(w)
    \/ ScaleCallNext

SpecScale == InitScale /\ [][NextScale]_vars

\* ------------------------------------------------------------- claims
NonNegative(s) == \A i \in 1..Len(s) : s[i] >= 0
SomePositive(s) == \E i \in 1..Len(s) : s[i] > 0

RECURSIVE Sum(_, _)
Sum(s, i) == IF i > Len(s) THEN 0 ELSE s[i] + Sum(s, i + 1)

DividesAll(d, s) == \A i \in 1..Len(s) : s[i] % d = 0

\* The mathematical gcd of non-negative weights, one of them positive.
Gcd(s) == CHOOSE d \in 1..Sum(s, 1) :
              /\ DividesAll(d, s)
              /\ \A e \in 1..Sum(s, 1) : DividesAll(e, s) => e <= d

Count(h, x, from, to) == Cardinality({k \in from..to : h[k] = x})

FixedFresh(s) == freshStart /\ servers = s

\* C1: on a pool of non-negative weights, one positive, unchanged since the
\* fresh state, every block of sum(w)/g consecutive successful next() calls
\* selects entry i exactly w_i/g times.
C1_Proportional ==
    (freshStart /\ NonNegative(servers) /\ SomePositive(servers)) =>
        LET g == Gcd(servers)
            n == Sum(servers, 1) \div g
        IN \A k \in 1..(Len(hist) - n + 1) :
             \A i \in 1..Len(servers) :
                Count(hist, i - 1, k, k + n - 1) = servers[i] \div g

C1_Witness ==
    /\ FixedFresh(<<5, 1, 1>>)
    /\ Len(hist) = 14
    /\ Count(hist, 0, 1, 14) = 10
    /\ Count(hist, 1, 1, 14) = 2
    /\ Count(hist, 2, 1, 14) = 2

Cycle(c, k) == c[((k - 1) % Len(c)) + 1]

ThreeInARow(h, x) == \E k \in 1..(Len(h) - 2) : h[k] = x /\ h[k + 1] = x /\ h[k + 2] = x

Called == ret.kind # "none"

\* C4: next() on a pool with no entries fails with the empty-pool error and
\* selects nothing.
C4_EmptyPool ==
    (Called /\ ret.pool = <<>>) => (ret.kind = "empty" /\ ret.sel = -1)

C4_Witness == ret.kind = "empty" /\ ret.pool = <<>> /\ hist = <<>>

AllZero(s) == Len(s) > 0 /\ \A i \in 1..Len(s) : s[i] = 0

\* C5: on a non-empty pool whose weights are all 0, every next() call fails
\* with the all-zero-weight error and selects nothing.
C5_AllZero ==
    (Called /\ AllZero(ret.pool)) => (ret.kind = "zero" /\ ret.sel = -1)

C5_Witness == ret.kind = "zero" /\ ret.pool = <<0, 0>> /\ servers = <<0, 0>>

NonPositive(s) == Len(s) > 0 /\ \A i \in 1..Len(s) : s[i] <= 0

\* C6: on a non-empty pool whose maximum weight is <= 0, negative weights
\* included, next() fails with the all-zero-weight error.
C6_NonPositiveMax ==
    (Called /\ NonPositive(ret.pool)) => ret.kind = "zero"
InRange(i) == i \in 0..(Len(servers) - 1)
Returned == {"unlock", "close", "forward", "forwarding", "done", "spin"}
Forwarding == {"forward", "forwarding"}

\* C3: under every interleaving of ServeTCP and AddWeightServer goroutines no
\* selection reads b.servers out of range, every selection is an entry of the
\* pool, and each call returns what the sequential run of next() calls, taken
\* in lock-acquisition order, returns for it.
C3_Serialised ==
    /\ \A p \in Procs : pc[p] # "panic"
    /\ \A p \in Procs : pc[p] = "test" => InRange(index)
    /\ \A p \in Procs : res[p].kind = "ok" => InRange(res[p].sel)
    /\ \A p \in Procs : pc[p] \in Returned => res[p] = expect[p]
    /\ lock = Free => (index = refIndex /\ currentWeight = refWeight)

C3_Witness ==
    /\ SomePositive(servers)
    /\ \E p, q \in Procs :
        /\ pc[p] = "forwarding" /\ pc[q] = "forwarding"
        /\ res[p].kind = "ok" /\ res[q].kind = "ok"
        /\ res[p].sel # res[q].sel
        /\ res[p] = expect[p] /\ res[q] = expect[q]

\* C7: when next() fails the connection is closed exactly once, no handler is
\* invoked and next() is not called again; when next() succeeds the connection
\* is passed to the selected handler only, and is not closed.
C7_CloseOrForward ==
    \A p \in Procs :
        /\ closed[p] <= 1 /\ Len(fwd[p]) <= 1 /\ tries[p] <= 1
        /\ (pc[p] = "done" /\ res[p].kind \in {"empty", "zero"}) =>
              (closed[p] = 1 /\ fwd[p] = <<>> /\ tries[p] = 1)
        /\ (pc[p] = "done" /\ res[p].kind = "ok") =>
              (closed[p] = 0 /\ fwd[p] = <<res[p].sel>> /\ tries[p] = 1)

C7_Witness ==
    \E p, q \in Procs :
        /\ pc[p] = "done" /\ res[p].kind \in {"empty", "zero"} /\ closed[p] = 1
        /\ pc[q] = "done" /\ res[q].kind = "ok" /\ fwd[q] = <<res[q].sel>>

\* C8: a ServeTCP goroutine that is in, or about to enter, the handler's
\* forwarding does not hold b.lock, so the lock is free for the others.
C8_ForwardUnlocked ==
    \A p \in Procs :
        pc[p] \in Forwarding =>
            /\ lock # p
            /\ (pcA = "idle" /\ \A q \in Procs : pc[q] \notin {"check", "advance", "test", "unlock", "spin"})
                  => lock = Free

C8_Witness ==
    \E p, q \in Procs :
        /\ pc[p] = "forwarding"
        /\ pc[q] = "unlock" /\ lock = q /\ res[q].kind = "ok"
PastStore(r) == rep[r].pc \notin {"store", "assign"}

\* C9: on a balancer made by NewWRRLoadBalancer, a SetStatus(name, up) that
\* finds no entry for name completes, leaving an entry for name holding up
\* (which stays), and invokes no listener.
C9_FirstReport ==
    \A r \in Reporters :
        (~statusAlloc /\ rep[r].miss /\ PastStore(r)) =>
            /\ rep[r].pc = "done"
            /\ status[rep[r].name] # 0
            /\ rep[r].sent = 0

Deliveries(l, n) ==
    IF l \in DOMAIN delivered
    THEN Cardinality({i \in 1..Len(delivered[l]) : delivered[l][i][2] = n})
    ELSE 0

SomeZero(s) == \E i \in 1..Len(s) : s[i] = 0

\* C13: on a pool of non-negative weights of which some, not all, are 0, every
\* next() call returns an entry, and never one of weight 0, whatever appends
\* and calls came before.
C13_ZeroWeightSkipped ==
    (Called /\ NonNegative(ret.pool) /\ SomePositive(ret.pool) /\ SomeZero(ret.pool)) =>
        (ret.kind = "ok" /\ ret.pool[ret.sel + 1] > 0)

C13_Witness ==
    /\ servers = <<0, 2, 0>>
    /\ ret.pool = servers
    /\ ret.kind = "ok"
    /\ hist = <<1, 1, 1>>
    /\ ~freshStart

\* C14: every next() call that passes the two checks returns an entry after at
\* most len(b.servers) iterations of its loop, for every pool AddWeightServer
\* can build and every rotation state reached.
C14_LoopBounded ==
    (Called /\ ret.kind \notin {"empty", "zero"}) =>
        (ret.kind = "ok" /\ ret.iters <= Len(ret.pool))

\* C17 as stated: whenever b.servers is non-empty, 0 <= index < len(b.servers).
C17_IndexValid ==
    Len(servers) > 0 => index \in 0..(Len(servers) - 1)

\* C17 amended: -1 <= index < len(b.servers) throughout; index is -1 until the
\* first next() call that enters the loop, and from then on
\* 0 <= index < len(b.servers).
C17_IndexValidOnceLooped ==
    /\ index \in -1..(Len(servers) - 1)
    /\ ret.kind \in {"ok", "spin"} => index \in 0..(Len(servers) - 1)
    /\ ret.kind \in {"none", "empty", "zero"} => index = -1

C17_Witness ==
    /\ Len(servers) = 3
    /\ ret.kind = "ok"
    /\ index = 0
    /\ Len(hist) >= 4

\* C18: currentWeight is never negative between calls; after a successful
\* next() on a pool of non-negative weights 1 <= currentWeight <= max weight,
\* and the weight of the returned entry is >= currentWeight.
C18_WeightInBounds ==
    /\ currentWeight >= 0
    /\ (ret.kind = "ok" /\ NonNegative(ret.pool)) =>
          /\ 1 <= currentWeight
          /\ currentWeight <= maxWeight(ret.pool)
          /\ ret.pool[ret.sel + 1] >= currentWeight

C18_Witness ==
    /\ servers = <<2, 4>>
    /\ ret.pool = servers
    /\ ret.kind = "ok"
    /\ currentWeight = 4
    /\ Len(hist) >= 4

Selected(h, x, from, to) == \E k \in from..to : h[k] = x

\* C20: on a pool of non-negative weights, whatever appends and calls came
\* before, every entry of positive weight, one appended mid-rotation included,
\* is selected within any sum(w)/g consecutive next() calls made since the
\* last append.
C20_NoStarvation ==
    (NonNegative(servers) /\ SomePositive(servers)) =>
        LET n == Sum(servers, 1) \div Gcd(servers)
        IN \A k \in 1..(Len(hist) - n + 1) :
             \A i \in 1..Len(servers) :
                servers[i] > 0 => Selected(hist, i - 1, k, k + n - 1)

C20_Witness ==
    /\ ~freshStart
    /\ servers = <<4, 2, 1>>
    /\ Len(hist) >= 8
    /\ Selected(hist, 2, 1, 7)
    /\ Selected(hist, 2, 8, Len(hist))
\* C12: a pool of non-negative weights W and the pool of weights k*W, k >= 1,
\* both started fresh, return the same position on every next() call.
C12_ScaleInvariant ==
    NonNegative(servers) =>
        /\ sRet.kind = ret.kind
        /\ sRet.sel = ret.sel
        /\ sIndex = index
        /\ sWeight = factor * currentWeight

C12_Witness ==
    /\ factor = 2
    /\ servers = <<2, 1>>
    /\ scaled = <<4, 2>>
    /\ freshStart
    /\ hist = <<0, 0, 1, 0, 0, 1>>
    /\ sRet.kind = "ok" /\ sRet.sel = 1
Won(r) == rep[r].cased /\ rep[r].old = ~rep[r].up
Lost(r) == rep[r].cased /\ rep[r].old = rep[r].up

\* The calls the loop over b.updaters makes for value up, as far as position k.
InOrder(up, k) == [i \in 1..k |-> <<updaters[i], up>>]

Distance(a, b) == IF a >= b THEN a - b ELSE b - a

InCall(r) == rep[r].pc \notin {"idle", "done"}

Quiescent == \A r \in Reporters : ~InCall(r)

Values(l, n) == SelectSeq(delivered[l], LAMBDA d : d[2] = n)

Alternates(v) == \A i \in 1..(Len(v) - 1) : v[i][1] # v[i + 1][1]

====
